---- MODULE Spec2Model ----
(***************************************************************************)
(* Model of the status-bar aggregator of custom_status_bar:                *)
(*   src/src/modules.rs  Modules::new, Modules::combine_modules, the       *)
(*                       Module trait and the block formatting helpers     *)
(*   src/src/main.rs     the driver loop                                   *)
(* Strings are TLC strings, so the formatted blocks and the returned line  *)
(* are the very texts the program builds.                                  *)
(***************************************************************************)
EXTENDS Integers, Sequences, FiniteSets, TLC

\* ------------------------------------------------------------- bounds ---
\* Number of registered producers (the const generic N of Modules<N>).
NumModules == 2
\* Largest cadence a producer's rate() returns in the model.
MaxRate == 3
\* Number of combine_modules calls explored.
MaxTick == 5

Idx == 1..NumModules

\* --------------------------------------------------- Option<T> values ---
None == <<>>
Some(v) == <<v>>
IsSome(o) == o # <<>>
Unwrap(o) == o[1]

\* ------------------------------------------------------- ModuleOutput ---
\* ModuleOutput::new(content): every optional field None.
ModuleOutputNew(content) ==
  [content |-> content, color_fg |-> None, color_bg |-> None, border |-> None,
   separator |-> None, separator_block_width |-> None]

WithColorFg(out, color) == [out EXCEPT !.color_fg = Some(color)]
WithColorBg(out, color) == [out EXCEPT !.color_bg = Some(color)]
WithBorder(out, border) == [out EXCEPT !.border = Some(border)]
WithSeparator(out, sep) == [out EXCEPT !.separator = Some(sep)]
WithSeparatorBlockWidth(out, w) == [out EXCEPT !.separator_block_width = Some(w)]

\* Display of the values handed to map_optional (bool, usize), under the
\* Option that carries them.
DisplayBool(o) ==
  IF IsSome(o) THEN Some(IF Unwrap(o) THEN "true" ELSE "false") ELSE None
DisplayUsize(o) == IF IsSome(o) THEN Some(ToString(Unwrap(o))) ELSE None

\* fn map_optional(key, val): ", \"key\": val" or "".
MapOptional(key, val) ==
  IF IsSome(val) THEN ", \"" \o key \o "\": " \o Unwrap(val) ELSE ""

\* fn map_optional_quotes(key, val): ", \"key\": \"val\"" or "".
\* Mutant: the value is written without its quotes.
MapOptionalQuotesMutBare(key, val) ==
  IF IsSome(val) THEN ", \"" \o key \o "\": " \o Unwrap(val) ELSE ""
MapOptionalQuotes(key, val) ==
  IF IsSome(val) THEN ", \"" \o key \o "\": \"" \o Unwrap(val) \o "\"" ELSE ""

\* The Ok arm of combine_modules: the block text of a ModuleOutput.
FormatOk(modout) ==
  "{\"full_text\": \"" \o modout.content \o "\""
    \o MapOptionalQuotes("color", modout.color_fg)
    \o MapOptionalQuotes("background", modout.color_bg)
    \o MapOptionalQuotes("border", modout.border)
    \o MapOptional("separator", DisplayBool(modout.separator))
    \o MapOptional("separator_block_width",
                   DisplayUsize(modout.separator_block_width))
    \o "}"

\* The Err(Some(mes)) arm, taken for a non-empty mes: the error block.
\* Mutant: the error block without its color.
FormatErrMutNoColor(mes) == "{\"full_text\": \"" \o mes \o "\"}"
FormatErr(mes) == "{\"full_text\": \"" \o mes \o "\", \"color\": \"#ff0000\"}"

\* ----------------------------------------------------------- ModuleRes --
\* type ModuleRes = Result<ModuleOutput, Option<String>>
Ok(modout) == [tag |-> "Ok", out |-> modout]
Err(optmes) == [tag |-> "Err", mes |-> optmes]

\* The fragments a sampler returns in the model: a plain one, and one with
\* every optional field set.
OutA == ModuleOutputNew("A")
OutB ==
  WithSeparatorBlockWidth(
    WithSeparator(
      WithBorder(WithColorBg(WithColorFg(ModuleOutputNew("B"), "#50fa7b"),
                             "#44475a"), "#000000"),
      FALSE), 9)

\* What one call of Module::get_output may return: a fragment, a failure with
\* a message (possibly the empty string), a failure with no message.
Fragments == {OutA, OutB}
Messages == {"E", ""}
Outcomes ==
  {Ok(o) : o \in Fragments} \cup {Err(Some(m)) : m \in Messages} \cup {Err(None)}

\* FormatOk and FormatErr tabulated over the fragments and messages of the
\* model (the same texts, built once).
OkText == [o \in Fragments |-> FormatOk(o)]
ErrText == [m \in Messages |-> FormatErr(m)]

\* ------------------------------------------------ combine_modules ------
\* The cadence test of the closure: the producer is sampled on this tick
\* (the code returns the cache when tick % rate != 0).
\* Mutant: the cadence test is off by one tick.
DueMutOffByOne(t, r) == (t + 1) % r = 0
Due(t, r) == t % r = 0

\* `if v.rate() > 1 { self.cache[i] = Some(res_inner.clone()); }`
\* Mutant: the text is never stored.
StoreCacheMutNever(r, slot, text) == slot
\* Mutant: a filled slot is not overwritten.
StoreCacheMutKeep(r, slot, text) ==
  IF r > 1 /\ ~IsSome(slot) THEN Some(text) ELSE slot
\* Mutant: the text is stored whatever the cadence.
StoreCacheMutAlways(r, slot, text) == Some(text)
StoreCache(r, slot, text) == IF r > 1 THEN Some(text) ELSE slot

\* `if v.rate() > 1 { self.cache[i] = None; }`
\* Mutant: a silent failure leaves the slot as it is.
ClearCacheMutKeep(r, slot) == slot
ClearCache(r, slot) == IF r > 1 THEN None ELSE slot

\* The guard of the second match arm: Err(Some(mes)) if !mes.is_empty().
\* Mutant: the guard does not test the message for emptiness.
IsMessageErrMutAny(result) == result.tag = "Err" /\ IsSome(result.mes)
IsMessageErr(result) ==
  result.tag = "Err" /\ IsSome(result.mes) /\ Unwrap(result.mes) # ""

\* The closure handed to filter_map, for one producer: t is self.tick, r is
\* v.rate(), slot is self.cache[i], result is what v.get_output() returns if
\* it is called.  item is the closure's return value, slot the cache slot
\* afterwards, called tells whether get_output was invoked, panic whether the
\* closure panicked (the remainder by a rate of zero).
Contribute(r, slot, text) ==
  [item |-> Some(text), slot |-> StoreCache(r, slot, text),
   called |-> TRUE, panic |-> FALSE]

\* Mutant: the sampler's result is unwrapped, so a failure panics.
ClosureMutUnwrap(t, r, slot, result) ==
  IF r = 0 THEN
    [item |-> None, slot |-> slot, called |-> FALSE, panic |-> TRUE]
  ELSE IF ~Due(t, r) THEN
    [item |-> slot, slot |-> slot, called |-> FALSE, panic |-> FALSE]
  ELSE IF result.tag = "Ok" THEN
    Contribute(r, slot, OkText[result.out])
  ELSE
    [item |-> None, slot |-> slot, called |-> TRUE, panic |-> TRUE]

Closure(t, r, slot, result) ==
  IF r = 0 THEN
    [item |-> None, slot |-> slot, called |-> FALSE, panic |-> TRUE]
  ELSE IF ~Due(t, r) THEN
    [item |-> slot, slot |-> slot, called |-> FALSE, panic |-> FALSE]
  ELSE IF result.tag = "Ok" THEN
    Contribute(r, slot, OkText[result.out])
  ELSE IF IsMessageErr(result) THEN
    Contribute(r, slot, ErrText[Unwrap(result.mes)])
  ELSE
    [item |-> None, slot |-> ClearCache(r, slot),
     called |-> TRUE, panic |-> FALSE]

\* iter_mut().enumerate().filter_map(closure): the producers are visited in
\* registration order from i on; acc collects the items the closure returned
\* (with the index of their producer), the cache, the producers whose sampler
\* was invoked, and whether a closure panicked (which ends the iteration).
\* Mutant: the items are collected in reverse order.
CollectMutPrepend(acc, i, c) ==
  [items  |-> IF IsSome(c.item)
              THEN <<[idx |-> i, text |-> Unwrap(c.item)]>> \o acc.items
              ELSE acc.items,
   cache  |-> [acc.cache EXCEPT ![i] = c.slot],
   called |-> IF c.called THEN acc.called \cup {i} ELSE acc.called,
   panic  |-> c.panic]

Collect(acc, i, c) ==
  [items  |-> IF IsSome(c.item)
              THEN Append(acc.items, [idx |-> i, text |-> Unwrap(c.item)])
              ELSE acc.items,
   cache  |-> [acc.cache EXCEPT ![i] = c.slot],
   called |-> IF c.called THEN acc.called \cup {i} ELSE acc.called,
   panic  |-> c.panic]

RECURSIVE FilterMap(_, _, _, _, _)
FilterMap(i, t, rates, results, acc) ==
  IF i > NumModules \/ acc.panic THEN acc
  ELSE FilterMap(i + 1, t, rates, results,
         Collect(acc, i, Closure(t, rates[i], acc.cache[i], results[i])))

\* .reduce(|a, n| a + ", " + &n): None for no item, else the left fold.
RECURSIVE ReduceFrom(_, _)
ReduceFrom(a, rest) ==
  IF rest = <<>> THEN a ELSE ReduceFrom(a \o ", " \o Head(rest), Tail(rest))

\* Mutant: the items are joined without the separator.
RECURSIVE ReduceFromNoSep(_, _)
ReduceFromNoSep(a, rest) ==
  IF rest = <<>> THEN a ELSE ReduceFromNoSep(a \o Head(rest), Tail(rest))

ReduceMutNoSep(texts) ==
  IF texts = <<>> THEN None ELSE Some(ReduceFromNoSep(Head(texts), Tail(texts)))
Reduce(texts) ==
  IF texts = <<>> THEN None ELSE Some(ReduceFrom(Head(texts), Tail(texts)))

\* The returned line: "[" + the reduced items, if any, + "]".
Bracket(mods) == "[" \o (IF IsSome(mods) THEN Unwrap(mods) ELSE "") \o "]"

Line(texts) == Bracket(Reduce(texts))

\* `self.tick += 1`
\* Mutant: the counter advances by two.
NextTickMutSkip(t) == t + 2
NextTick(t) == t + 1

\* The sampler results one call can consume: one outcome, among outs, for
\* every producer that is sampled on tick t; a producer that is not sampled
\* returns nothing, its entry is a placeholder that is never read.
Samples(t, rates, outs) ==
  LET due == {i \in Idx : Due(t, rates[i])}
  IN  {[i \in Idx |-> IF i \in due THEN f[i] ELSE Err(None)] :
         f \in [due -> outs]}

\* main: println!("{{\"version\": 1}}\n[") writes these two lines.
Header == <<"{\"version\": 1}", "[">>

\* main: println!("{},", res) writes this line.
\* Mutant: the line is written without the trailing comma.
TickLineMutNoComma(line) == line
TickLine(line) == line \o ","

\* ------------------------------------------------------------ state -----
VARIABLES
  pc,       \* position of main: "start", "call", "print", "sleep", "panicked"
  rate,     \* rate[i]: what modules[i].rate() returns
  cache,    \* Modules.cache
  tick,     \* Modules.tick
  res,      \* the line returned by the last combine_modules call
  items,    \* history: the items of the last call, in the order collected
  called,   \* history: the producers whose get_output the last call invoked
  last,     \* history: last[i] is the result of producer i's latest sample
  everOk,   \* history: some sample of producer i returned Ok
  ncalls,   \* history: number of combine_modules calls made
  samplers, \* the results the get_output of this run's producers can return
  observe,  \* whether this run keeps the lines written in stdout
  stdout,   \* the lines written to the standard output, when observed
  arg,      \* the argument of the function a function specification applies
  ret       \* its result

vars == <<pc, rate, cache, tick, res, items, called, last, everOk, ncalls,
          samplers, observe, stdout, arg, ret>>

history == <<items, called, last, everOk, ncalls>>

\* What the aggregator and the driver never change.
fixed == <<samplers, observe, arg, ret>>

\* Modules::new: empty cache, tick 0; main is about to print the header.
Init ==
  /\ pc = "start"
  /\ rate \in [Idx -> 1..MaxRate]
  /\ cache = [i \in Idx |-> None]
  /\ tick = 0
  /\ res = ""
  /\ items = <<>>
  /\ called = {}
  /\ last = [i \in Idx |-> None]
  /\ everOk = [i \in Idx |-> FALSE]
  /\ ncalls = 0
  /\ samplers = Outcomes
  /\ observe = FALSE
  /\ stdout = <<>>
  /\ arg = None
  /\ ret = None

\* main: the header lines are printed, the loop is entered.
Start ==
  /\ pc = "start"
  /\ pc' = "call"
  /\ stdout' = IF observe THEN stdout \o Header ELSE stdout
  /\ UNCHANGED <<rate, cache, tick, res, history, fixed>>

\* One call of Modules::combine_modules; results[i] is what get_output of
\* producer i returns if this call invokes it.
CombineModules ==
  /\ pc = "call"
  /\ tick < MaxTick
  /\ \E results \in Samples(tick, rate, samplers) :
     \E fm \in {FilterMap(1, tick, rate, results,
                   [items |-> <<>>, cache |-> cache, called |-> {}, panic |-> FALSE])} :
       LET texts == [k \in 1..Len(fm.items) |-> fm.items[k].text]
       IN  /\ cache' = fm.cache
           /\ items' = fm.items
           /\ called' = fm.called
           /\ last' = [i \in Idx |->
                         IF i \in fm.called THEN Some(results[i]) ELSE last[i]]
           /\ everOk' = [i \in Idx |->
                           everOk[i] \/ (i \in fm.called /\ results[i].tag = "Ok")]
           /\ ncalls' = ncalls + 1
           /\ IF fm.panic
              THEN /\ pc' = "panicked"
                   /\ UNCHANGED <<tick, res>>
              ELSE /\ res' = Line(texts)
                   /\ tick' = NextTick(tick)
                   /\ pc' = "print"
  /\ UNCHANGED <<rate, stdout, fixed>>

\* main: println!("{},", res)
Println ==
  /\ pc = "print"
  /\ pc' = "sleep"
  /\ stdout' = IF observe THEN Append(stdout, TickLine(res)) ELSE stdout
  /\ UNCHANGED <<rate, cache, tick, res, history, fixed>>

\* main: sleep(t_sleep), then the next iteration of the loop.
Sleep ==
  /\ pc = "sleep"
  /\ pc' = "call"
  /\ UNCHANGED <<rate, cache, tick, res, history, stdout, fixed>>

Next == Start \/ CombineModules \/ Println \/ Sleep

Spec == Init /\ [][Next]_vars

\* The same program with its output observed, run with producers that either
\* return the fragment A or fail with no message.
InitStream ==
  /\ pc = "start"
  /\ rate \in [Idx -> 1..MaxRate]
  /\ cache = [i \in Idx |-> None]
  /\ tick = 0
  /\ res = ""
  /\ items = <<>>
  /\ called = {}
  /\ last = [i \in Idx |-> None]
  /\ everOk = [i \in Idx |-> FALSE]
  /\ ncalls = 0
  /\ samplers = {Ok(OutA), Err(None)}
  /\ observe = TRUE
  /\ stdout = <<>>
  /\ arg = None
  /\ ret = None

SpecStream == InitStream /\ [][Next]_vars

TypeOK ==
  /\ pc \in {"start", "call", "print", "sleep", "panicked"}
  /\ tick \in 0..(MaxTick + 1)
  /\ \A i \in Idx : rate[i] \in 1..MaxRate

\* ------------------------------------------- function specifications ---
\* The aggregator and the driver at rest, for the specifications that apply
\* one function of the program to its arguments.
AtRest ==
  /\ rate = [i \in Idx |-> 1]
  /\ cache = [i \in Idx |-> None]
  /\ tick = 0
  /\ res = ""
  /\ items = <<>>
  /\ called = {}
  /\ last = [i \in Idx |-> None]
  /\ everOk = [i \in Idx |-> FALSE]
  /\ ncalls = 0
  /\ samplers = Outcomes
  /\ observe = FALSE
  /\ stdout = <<>>

aggregator == <<rate, cache, tick, res, history, samplers, observe, stdout>>

\* The ModuleOutput values the formatting is applied to: every choice of set
\* and unset optional fields.
ModuleOutputs ==
  [content : {"A", "B"},
   color_fg : {None, Some("#50fa7b")},
   color_bg : {None, Some("#44475a")},
   border : {None, Some("#000000")},
   separator : {None, Some(TRUE), Some(FALSE)},
   separator_block_width : {None, Some(0), Some(9)}]

InitFormat ==
  /\ pc = "format"
  /\ arg \in ModuleOutputs
  /\ ret = None
  /\ AtRest

\* The Ok arm of combine_modules applied to the fragment arg.
Format ==
  /\ pc = "format"
  /\ ret' = Some(FormatOk(arg))
  /\ pc' = "done"
  /\ UNCHANGED <<arg, aggregator>>

NextFormat == Format

SpecFormat == InitFormat /\ [][NextFormat]_vars

\* fn percentage_to_char(v): the code point 0x2581 + (7 * v / 100) as u32, if
\* it is a char (not a surrogate, not above 0x10FFFF); v is a whole
\* percentage, for which the f32 quotient has the integer part of the exact one.
\* Mutant: eight buckets below 100 and a ninth at 100.
PercentageToCharMutEight(v) ==
  LET c == 9601 + ((8 * v) \div 100)
  IN  IF c \in 55296..57343 \/ c > 1114111 THEN None ELSE Some(c)
PercentageToChar(v) ==
  LET c == 9601 + ((7 * v) \div 100)
  IN  IF c \in 55296..57343 \/ c > 1114111 THEN None ELSE Some(c)

\* The utilisations percentage_to_char is applied to.
Percentages == 0..100

InitCpu ==
  /\ pc = "cpu"
  /\ arg \in Percentages
  /\ ret = None
  /\ AtRest

\* CpuModule::get_output, for one core: percentage_to_char(c.cpu_usage()).
CpuGlyph ==
  /\ pc = "cpu"
  /\ ret' = PercentageToChar(arg)
  /\ pc' = "done"
  /\ UNCHANGED <<arg, aggregator>>

NextCpu == CpuGlyph

SpecCpu == InitCpu /\ [][NextCpu]_vars

\* ------------------------------------------------------ BatteryModule ---
RECURSIVE Pow2(_)
Pow2(n) == IF n = 0 THEN 1 ELSE 2 * Pow2(n - 1)

\* Round-to-nearest-even of the quotient n / d, as f32 arithmetic rounds.
RoundNearestEven(n, d) ==
  LET q == n \div d
      r == n % d
  IN  IF 2 * r > d \/ (2 * r = d /\ q % 2 = 1) THEN q + 1 ELSE q

\* The least k with a * 2^k >= b * 2^23: the binary exponent that gives the
\* quotient a / b its 24 significant bits.
RECURSIVE NormExp(_, _, _)
NormExp(a, b, k) ==
  IF a * Pow2(k) >= b * Pow2(23) THEN k ELSE NormExp(a, b, k + 1)

\* `a as f32 / b as f32` for small integers a >= 0, b > 0: the f32 nearest to
\* the quotient, as the pair (m, k) of value m / 2^k.
F32Div(a, b) ==
  IF a = 0 THEN [cls |-> "fin", m |-> 0, k |-> 0]
  ELSE LET k == NormExp(a, b, 0)
           m == RoundNearestEven(a * Pow2(k), b)
       IN  IF m = Pow2(24) THEN [cls |-> "fin", m |-> Pow2(23), k |-> k - 1]
           ELSE [cls |-> "fin", m |-> m, k |-> k]

\* `x as f32 / cnow as f32` for an unsigned numerator x: by zero the quotient
\* is inf, or NaN for 0 / 0.
HoursLeft(x, cnow) ==
  IF cnow = 0 THEN (IF x = 0 THEN [cls |-> "nan"] ELSE [cls |-> "inf"])
  ELSE F32Div(x, cnow)

\* hours_left.floor() of a finite value.
Floor(x) == x.m \div Pow2(x.k)

\* The numerator over 2^k of hours_left.fract() * 60. before rounding (fract
\* is exact in f32).
FractTimes60(x) == (x.m % Pow2(x.k)) * 60

\* The least s with n / 2^s < 2^24.
RECURSIVE Shift(_, _)
Shift(n, s) == IF n < Pow2(24 + s) THEN s ELSE Shift(n, s + 1)

\* (hours_left.fract() * 60.).floor(): the product rounded to f32, floored.
MinsFloor(x) ==
  LET n == FractTimes60(x)
      s == Shift(n, 0)
  IN  (RoundNearestEven(n, Pow2(s)) * Pow2(s)) \div Pow2(x.k)

\* `hours_left.floor() > 0.0` and `mins_left > 0.0`; both are false of NaN,
\* and the fract of inf is NaN.
HoursPositive(x) ==
  CASE x.cls = "fin" -> Floor(x) > 0
    [] x.cls = "inf" -> TRUE
    [] x.cls = "huge" -> TRUE
    [] x.cls = "nan" -> FALSE
MinsPositive(x) == x.cls = "fin" /\ FractTimes60(x) > 0

\* {:.0} of hours_left.floor() and of mins_left.floor().  A wrapped
\* difference is near 2^64: its digits are outside the model's integers and
\* are written as the word huge; its fract is 0.
ShowHours(x) ==
  CASE x.cls = "fin" -> ToString(Floor(x))
    [] x.cls = "inf" -> "inf"
    [] x.cls = "huge" -> "huge"
    [] x.cls = "nan" -> "NaN"
ShowMins(x) ==
  CASE x.cls = "fin" -> ToString(MinsFloor(x))
    [] x.cls = "inf" -> "NaN"
    [] x.cls = "huge" -> "0"
    [] x.cls = "nan" -> "NaN"

\* get_measure(file): the values of the devices' files, summed by
\* reduce(|a, n| Some(a? + n?)); None if a file cannot be read or parsed, or
\* if there is no device.
RECURSIVE SumFrom(_, _, _, _)
SumFrom(devs, file, i, acc) ==
  IF i > Len(devs) THEN acc
  ELSE SumFrom(devs, file, i + 1,
         IF IsSome(acc) /\ IsSome(devs[i][file])
         THEN Some(Unwrap(acc) + Unwrap(devs[i][file])) ELSE None)

\* Mutant: an unreadable file counts as 0.
GetMeasureMutZero(devs, file) ==
  IF Len(devs) = 0 THEN None
  ELSE SumFrom([i \in 1..Len(devs) |->
                  [devs[i] EXCEPT ![file] =
                     IF IsSome(devs[i][file]) THEN devs[i][file] ELSE Some(0)]],
               file, 2,
               IF IsSome(devs[1][file]) THEN devs[1][file] ELSE Some(0))
GetMeasure(devs, file) ==
  IF Len(devs) = 0 THEN None ELSE SumFrom(devs, file, 2, devs[1][file])

\* The first device whose status is Charging (1) or Discharging (-1), if any.
RECURSIVE FindState(_, _)
FindState(devs, i) ==
  IF i > Len(devs) THEN None
  ELSE IF devs[i].status = "Charging" THEN Some(1)
  ELSE IF devs[i].status = "Discharging" THEN Some(-1)
  ELSE FindState(devs, i + 1)

\* char::from_u32(0xf244 - ((4 * perc) / 100) as u32): the glyph, written as
\* its code point between angle brackets.
BatteryGlyph(perc) == "<" \o ToString(62020 - ((4 * perc) \div 100)) \o ">"

\* The three content formats of BatteryModule::get_output.
\* Mutant: the hours are dropped whenever the minutes are 0.
BatteryContentMutDropHours(bat, perc, hours) ==
  IF HoursPositive(hours) /\ ShowMins(hours) # "0" THEN
    bat \o " " \o ToString(perc) \o "% [" \o ShowHours(hours) \o "h "
        \o ShowMins(hours) \o "m]"
  ELSE IF MinsPositive(hours) THEN
    bat \o " " \o ToString(perc) \o "% [" \o ShowMins(hours) \o "m]"
  ELSE
    bat \o " " \o ToString(perc) \o "%"
BatteryContent(bat, perc, hours) ==
  IF HoursPositive(hours) THEN
    bat \o " " \o ToString(perc) \o "% [" \o ShowHours(hours) \o "h "
        \o ShowMins(hours) \o "m]"
  ELSE IF MinsPositive(hours) THEN
    bat \o " " \o ToString(perc) \o "% [" \o ShowMins(hours) \o "m]"
  ELSE
    bat \o " " \o ToString(perc) \o "%"

\* A sampler that panics.
Panic == [tag |-> "Panic"]

\* BatteryModule::get_output on the devices devs; checks tells whether the
\* build checks integer overflow (it panics where the other build wraps).
BatteryGetOutput(devs, checks) ==
  LET ecap == GetMeasure(devs, "charge_full")
      enow == GetMeasure(devs, "charge_now")
      cnow == GetMeasure(devs, "current_now")
  IN
  IF ~IsSome(ecap) \/ ~IsSome(enow) \/ ~IsSome(cnow) THEN Err(None)
  ELSE IF Unwrap(ecap) = 0 THEN Panic
  ELSE
    LET perc == (100 * Unwrap(enow)) \div Unwrap(ecap)
        bat == BatteryGlyph(perc)
        state == FindState(devs, 1)
        out == ModuleOutputNew("")
    IN
    IF state = Some(1) THEN
      IF Unwrap(enow) > Unwrap(ecap) THEN
        IF checks THEN Panic
        ELSE Ok([WithColorFg(out, "#50fa7b") EXCEPT !.content =
                   BatteryContent(bat, perc,
                     IF Unwrap(cnow) = 0 THEN [cls |-> "inf"]
                     ELSE [cls |-> "huge"])])
      ELSE Ok([WithColorFg(out, "#50fa7b") EXCEPT !.content =
                 BatteryContent(bat, perc,
                   HoursLeft(Unwrap(ecap) - Unwrap(enow), Unwrap(cnow)))])
    ELSE IF state = Some(-1) THEN
      Ok([WithColorFg(out, "#ff5555") EXCEPT !.content =
            BatteryContent(bat, perc, HoursLeft(Unwrap(enow), Unwrap(cnow)))])
    ELSE
      Ok([out EXCEPT !.content =
            BatteryContent(bat, perc, [cls |-> "fin", m |-> 0, k |-> 0])])

\* The contents of one battery device's files: the three measures, readable
\* as an unsigned integer or not, and the status.
Devices ==
  [charge_full : {None, Some(0), Some(2), Some(4)},
   charge_now : {None, Some(0), Some(1), Some(2)},
   current_now : {None, Some(0), Some(1), Some(3)},
   status : {"Charging", "Discharging", "Full"}]

InitBattery ==
  /\ pc = "battery"
  /\ arg \in [devs : {<<d>> : d \in Devices} \cup (Devices \X Devices),
              checks : BOOLEAN]
  /\ ret = None
  /\ AtRest

\* One call of BatteryModule::get_output.
BatteryModuleGetOutput ==
  /\ pc = "battery"
  /\ \E r \in {BatteryGetOutput(arg.devs, arg.checks)} :
       /\ ret' = r
       /\ pc' = IF r = Panic THEN "panicked" ELSE "done"
  /\ UNCHANGED <<arg, aggregator>>

NextBattery == BatteryModuleGetOutput

SpecBattery == InitBattery /\ [][NextBattery]_vars

\* ------------------------------------------------- reading the state ---
\* combine_modules has just returned: res is its line, tick - 1 its tick.
Returned == pc = "print"

\* The text producer i contributed to the last call, if any.
Contrib(i) ==
  IF \E k \in DOMAIN items : items[k].idx = i
  THEN Some(items[CHOOSE k \in DOMAIN items : items[k].idx = i].text)
  ELSE None

\* Producer i's latest sample returned a fragment / a failure with a
\* non-empty message / a failure with no message.
LastOk(i) == IsSome(last[i]) /\ Unwrap(last[i]).tag = "Ok"
LastMessage(i) ==
  /\ IsSome(last[i]) /\ Unwrap(last[i]).tag = "Err"
  /\ IsSome(Unwrap(last[i]).mes) /\ Unwrap(Unwrap(last[i]).mes) # ""
LastNoMessage(i) == last[i] = Some(Err(None))
LastSilent(i) ==
  IsSome(last[i]) /\ Unwrap(last[i]).tag = "Err" /\ ~LastMessage(i)

\* The error block of message mes, written out.
ErrorBlock(mes) == "{\"full_text\": \"" \o mes \o "\", \"color\": \"#ff0000\"}"

\* ------------------------------------------------------------- claims ---

\* C1 (cadence): the call at tick T invokes the sampler of a producer exactly
\* when T mod cadence = 0, so once in every window of c ticks that starts at a
\* multiple of c; and while the latest sample is a success, every call of the
\* window contributes the text formatted from that sample.
C1_Cadence ==
  Returned =>
    \A i \in Idx :
      /\ (i \in called) <=> ((tick - 1) % rate[i] = 0)
      /\ LastOk(i) => Contrib(i) = Some(FormatOk(Unwrap(last[i]).out))

\* A cadence-3 producer that succeeded with "A" at tick 0 is served from the
\* cache at tick 2.
C1_Witness ==
  /\ Returned /\ tick - 1 = 2
  /\ \E i \in Idx :
       /\ rate[i] = 3 /\ i \notin called
       /\ last[i] = Some(Ok(OutA))
       /\ Contrib(i) = Some("{\"full_text\": \"A\"}")

\* C2 (error block never cached): while the latest sample of a producer with
\* cadence > 1 is a failure with a message, its slot does not hold the error
\* block and no non-refresh tick contributes it.
C2_ErrorNotCached ==
  \A i \in Idx :
    (rate[i] > 1 /\ LastMessage(i)) =>
      /\ cache[i] # Some(ErrorBlock(Unwrap(Unwrap(last[i]).mes)))
      /\ (Returned /\ i \notin called) =>
           Contrib(i) # Some(ErrorBlock(Unwrap(Unwrap(last[i]).mes)))

\* C3 (cache-slot invariant): after every call a slot is filled exactly when
\* the cadence is > 1 and the latest sample succeeded.
C3_CacheSlot ==
  ncalls > 0 =>
    \A i \in Idx : IsSome(cache[i]) <=> (rate[i] > 1 /\ LastOk(i))

\* C4 (cache clear): once a producer with cadence > 1 that had succeeded
\* fails with no message, its slot is empty and it contributes no block, on
\* the failing tick and on the non-refresh ticks after it.
C4_CacheClear ==
  Returned =>
    \A i \in Idx :
      (rate[i] > 1 /\ everOk[i] /\ LastNoMessage(i)) =>
        (Contrib(i) = None /\ cache[i] = None)

\* Cadence 2: success at tick 0, silent failure at tick 2, nothing shown at
\* the non-refresh tick 3.
C4_Witness ==
  /\ Returned /\ tick - 1 = 3
  /\ \E i \in Idx :
       /\ rate[i] = 2 /\ i \notin called
       /\ everOk[i] /\ LastNoMessage(i)
       /\ Contrib(i) = None

\* C5 (ordering): the items of a call are in registration order, one per
\* producer at most, whether they were sampled, cached or error blocks.
C5_Ordering ==
  Returned =>
    \A k, l \in DOMAIN items : k < l => items[k].idx < items[l].idx

\* Two blocks in one line, the first served from the cache and the second an
\* error block sampled on this tick.
C5_Witness ==
  /\ Returned /\ Len(items) = 2
  /\ items[1].idx \notin called
  /\ items[2].idx \in called /\ LastMessage(items[2].idx)

\* C6 (tick() is total): no call panics; every call that was started has
\* returned a line and advanced the counter.
C6_Total ==
  /\ pc # "panicked"
  /\ ncalls > 0 => (tick = ncalls /\ res # "")

\* A call in which every producer was sampled and every one failed, one with
\* a message and one without.
C6_Witness ==
  /\ Returned /\ called = Idx
  /\ \A i \in Idx : ~LastOk(i)
  /\ \E i \in Idx : LastMessage(i)
  /\ \E i \in Idx : LastNoMessage(i)

\* C7 (error on the tick): a producer sampled on this tick that failed with
\* a non-empty message contributes, at its position, the block of exactly
\* full_text = message and color = #ff0000.
C7_ErrorVisible ==
  Returned =>
    \A i \in called :
      LastMessage(i) =>
        \E k \in DOMAIN items :
          /\ items[k] = [idx |-> i, text |-> ErrorBlock(Unwrap(Unwrap(last[i]).mes))]
          /\ \A l \in DOMAIN items : (l < k <=> items[l].idx < i)

\* The second producer fails with "E" after the first contributed.
C7_Witness ==
  /\ Returned /\ Len(items) = 2
  /\ 2 \in called /\ last[2] = Some(Err(Some("E")))
  /\ items[2] = [idx |-> 2, text |-> "{\"full_text\": \"E\", \"color\": \"#ff0000\"}"]

RECURSIVE JoinFrom(_, _)
JoinFrom(i, first) ==
  IF i > NumModules THEN ""
  ELSE IF Contrib(i) = None THEN JoinFrom(i + 1, first)
  ELSE (IF first THEN "" ELSE ", ") \o Unwrap(Contrib(i)) \o JoinFrom(i + 1, FALSE)

\* C9 (the line): the line is "[" + the contributed texts joined with ", "
\* + "]"; a producer that failed silently contributes neither a block nor a
\* separator; with no contribution the line is "[]"; cadence-1 producers of
\* which the first succeeds with A and the others fail silently give the
\* line of the single block A.
C9_Line ==
  Returned =>
    /\ res = "[" \o JoinFrom(1, TRUE) \o "]"
    /\ \A i \in called : LastSilent(i) => Contrib(i) = None
    /\ (\A i \in Idx : Contrib(i) = None) => res = "[]"
    /\ ( /\ \A i \in Idx : rate[i] = 1
         /\ last[1] = Some(Ok(OutA))
         /\ \A i \in Idx \ {1} : LastSilent(i) )
       => res = "[{\"full_text\": \"A\"}]"

\* Cadence 1 everywhere, A from the first producer, silence from the rest.
C9_Witness ==
  /\ Returned
  /\ \A i \in Idx : rate[i] = 1
  /\ last[1] = Some(Ok(OutA))
  /\ \A i \in Idx \ {1} : LastNoMessage(i)
  /\ res = "[{\"full_text\": \"A\"}]"

\* C10 (tick counter): the counter is 0 before the first call and equals the
\* number of calls made in every state, so each call adds exactly one, nothing
\* else changes it, and before the n-th call it is n.
C10_TickCounter ==
  /\ pc = "start" => tick = 0
  /\ tick = ncalls

\* Three calls made, in the last of which a producer failed.
C10_Witness ==
  /\ Returned /\ ncalls = 3 /\ tick = 3
  /\ \E i \in called : ~LastOk(i)

\* C14 (freshness of the cache): on a non-refresh tick of a producer with
\* cadence > 1 whose latest refresh, at tick t - (t mod c), succeeded, the slot
\* and the contribution are the text formatted from that refresh, not the text
\* of an earlier one.
C14_Fresh ==
  Returned =>
    \A i \in Idx :
      (rate[i] > 1 /\ (tick - 1) % rate[i] # 0 /\ LastOk(i)) =>
        /\ cache[i] = Some(FormatOk(Unwrap(last[i]).out))
        /\ Contrib(i) = cache[i]

\* Cadence 2: the second refresh, at tick 2, returned B; tick 3 shows B.
C14_Witness ==
  /\ Returned /\ tick - 1 = 3
  /\ \E i \in Idx :
       /\ rate[i] = 2 /\ last[i] = Some(Ok(OutB))
       /\ Contrib(i) = Some(FormatOk(OutB))

\* C18 (frame): a call invokes the sampler of producer i only if
\* tick mod cadence = 0 and changes slot i only if i is due and has
\* cadence > 1; the slots of cadence-1 producers stay empty; the cadences and
\* the set of producers do not change.
C18_Frame ==
  [][/\ rate' = rate
     /\ DOMAIN cache' = DOMAIN cache
     /\ \A i \in Idx :
          /\ (rate[i] = 1) => cache'[i] = None
          /\ (cache'[i] # cache[i]) =>
               (pc = "call" /\ tick % rate[i] = 0 /\ rate[i] > 1)
          /\ (pc = "call" /\ i \in called') => tick % rate[i] = 0]_vars

\* A call at tick 2 that samples a cadence-2 producer and fills its slot
\* while a cadence-3 producer is not sampled and keeps its slot.
C18_Witness ==
  /\ Returned /\ tick - 1 = 2
  /\ \E i, j \in Idx :
       /\ rate[i] = 2 /\ i \in called /\ IsSome(cache[i])
       /\ rate[j] = 3 /\ j \notin called /\ IsSome(cache[j])

\* C19 (empty message): a failure whose message is the empty string gives no
\* block on that tick and, for a cadence > 1, an empty slot, as a failure with
\* no message does.
C19_EmptyMessage ==
  Returned =>
    \A i \in Idx :
      last[i] = Some(Err(Some(""))) =>
        /\ Contrib(i) = None
        /\ rate[i] > 1 => cache[i] = None
        /\ Closure(tick - 1, rate[i], cache[i], Err(Some("")))
             = Closure(tick - 1, rate[i], cache[i], Err(None))

\* A cadence-2 producer that had succeeded returns Err(Some("")) at tick 2.
C19_Witness ==
  /\ Returned /\ tick - 1 = 2
  /\ \E i \in Idx :
       /\ rate[i] = 2 /\ i \in called /\ everOk[i]
       /\ last[i] = Some(Err(Some("")))
       /\ Contrib(i) = None /\ cache[i] = None

\* C12 (stream protocol): the two header lines are written once, first; every
\* later line is the line returned by the one call made since the previous
\* write, followed by a comma, so the k-th tick line is the result of the call
\* at tick k - 1; nothing else writes, and no line closes the array.
C12_Stream ==
  /\ [][/\ pc = "start" => stdout' = <<"{\"version\": 1}", "[">>
        /\ pc = "print" =>
             /\ stdout' = Append(stdout, res \o ",")
             /\ Len(stdout') = 2 + tick
             /\ ncalls = tick
        /\ pc \notin {"start", "print"} => stdout' = stdout]_vars
  /\ [](pc # "start" =>
          /\ Len(stdout) >= 2
          /\ stdout[1] = "{\"version\": 1}" /\ stdout[2] = "["
          /\ \A k \in 3..Len(stdout) :
               stdout[k] \notin {"{\"version\": 1}", "[", "]", "],"})

\* Three tick lines written after the header, the first two of them different.
C12_Witness ==
  /\ pc = "sleep" /\ Len(stdout) = 5 /\ tick = 3
  /\ stdout[3] = "[{\"full_text\": \"A\"}],"
  /\ stdout[4] = "[],"
  /\ stdout[5] = res \o ","

\* The key-value texts of a fragment: full_text, then one per set field.
KeyVals(f) ==
  <<"\"full_text\": \"" \o f.content \o "\"">>
  \o (IF f.color_fg = None THEN <<>>
      ELSE <<"\"color\": \"" \o f.color_fg[1] \o "\"">>)
  \o (IF f.color_bg = None THEN <<>>
      ELSE <<"\"background\": \"" \o f.color_bg[1] \o "\"">>)
  \o (IF f.border = None THEN <<>>
      ELSE <<"\"border\": \"" \o f.border[1] \o "\"">>)
  \o (IF f.separator = None THEN <<>>
      ELSE <<"\"separator\": " \o (IF f.separator[1] THEN "true" ELSE "false")>>)
  \o (IF f.separator_block_width = None THEN <<>>
      ELSE <<"\"separator_block_width\": " \o ToString(f.separator_block_width[1])>>)

RECURSIVE JoinComma(_)
JoinComma(kvs) ==
  IF Len(kvs) = 1 THEN kvs[1] ELSE kvs[1] \o ", " \o JoinComma(Tail(kvs))

\* C11 (formatter keys): the object is "{" + full_text and then exactly the
\* set fields, in the order color, background, border, separator,
\* separator_block_width, joined with ", " + "}"; text and colors quoted,
\* separator and separator_block_width bare; nothing for an unset field.
C11_FormatKeys ==
  pc = "done" => ret = Some("{" \o JoinComma(KeyVals(arg)) \o "}")

\* The fragment with every optional field set.
C11_Witness ==
  /\ pc = "done"
  /\ arg = OutB
  /\ ret = Some("{\"full_text\": \"B\", \"color\": \"#50fa7b\", \"background\": \"#44475a\", \"border\": \"#000000\", \"separator\": false, \"separator_block_width\": 9}")

\* C17 (sparkline bucketing): for pct in 0..100 the glyph is the code point
\* 0x2581 + b with b = floor(7 * pct / 100), b in 0..7, so one of
\* U+2581..U+2588, and no smaller pct has a higher glyph.
C17_Bucket ==
  pc = "done" =>
    /\ IsSome(ret)
    /\ ret[1] \in 9601..9608
    /\ LET b == ret[1] - 9601
       IN  100 * b <= 7 * arg /\ 7 * arg < 100 * (b + 1)
    /\ \A q \in 0..arg : PercentageToChar(q)[1] <= ret[1]

\* Full load gives the full block U+2588.
C17_Witness == pc = "done" /\ arg = 100 /\ ret = Some(9608)

\* ------------------------------------------------------------ battery ---
\* The battery producer has returned (or panicked) on the devices arg.devs.
AllReadable ==
  \A i \in 1..Len(arg.devs) :
    \A file \in {"charge_full", "charge_now", "current_now"} :
      IsSome(arg.devs[i][file])

\* The sum of a measure over the devices, when every file is readable.
Total(file) ==
  IF Len(arg.devs) = 1 THEN arg.devs[1][file][1]
  ELSE arg.devs[1][file][1] + arg.devs[2][file][1]

\* The status that decides: the first device's unless it is neither
\* Charging nor Discharging.
Status ==
  IF arg.devs[1].status # "Full" \/ Len(arg.devs) = 1
  THEN arg.devs[1].status ELSE arg.devs[2].status

\* The numerator of the estimate: what is left to charge or to discharge.
Remaining ==
  IF Status = "Charging" THEN Total("charge_full") - Total("charge_now")
  ELSE IF Status = "Discharging" THEN Total("charge_now")
  ELSE 0

\* The text without a time-remaining part: '<glyph> <pct>%'.
Prefix ==
  LET pct == (100 * Total("charge_now")) \div Total("charge_full")
  IN  "<" \o ToString(62020 - ((4 * pct) \div 100)) \o "> "
          \o ToString(pct) \o "%"

\* C13: Scenario D: at 50% of the summed full charge, Discharging, with
\* now / current exactly 2 hours, the battery producer succeeds with the
\* text '<glyph> 50% [2h 0m]'.  In general, where the estimate is a finite
\* number (positive current, nothing more than full to charge), the text is
\* '<glyph> <pct>% [<h>h <m>m]' with h the whole hours when they are > 0,
\* '<glyph> <pct>% [<m>m]' when the whole hours are 0 and the minutes are
\* > 0, and '<glyph> <pct>%' when both are 0.
C13_BatteryText ==
  (/\ pc = "done"
   /\ AllReadable
   /\ Total("charge_full") > 0
   /\ Total("current_now") > 0
   /\ Remaining >= 0)
  => /\ ret.tag = "Ok"
     /\ LET h == Remaining \div Total("current_now")
            left == Remaining % Total("current_now")
            text == ret.out.content
        IN  /\ h > 0 =>
                 \E m \in 0..59 :
                   text = Prefix \o " [" \o ToString(h) \o "h "
                                 \o ToString(m) \o "m]"
            /\ (h = 0 /\ left > 0) =>
                 \E m \in 0..59 :
                   text = Prefix \o " [" \o ToString(m) \o "m]"
            /\ (h = 0 /\ left = 0) => text = Prefix
            /\ (/\ Status = "Discharging"
                /\ 2 * Total("charge_now") = Total("charge_full")
                /\ Total("charge_now") = 2 * Total("current_now"))
               => text = "<62018> 50% [2h 0m]"

\* Scenario D on two devices: 2 of 4 charged, discharging at 1.
C13_Witness ==
  /\ pc = "done"
  /\ Len(arg.devs) = 2
  /\ AllReadable
  /\ Total("charge_full") = 4
  /\ Total("charge_now") = 2
  /\ Total("current_now") = 1
  /\ Status = "Discharging"
  /\ ret.tag = "Ok"
  /\ ret.out.content = "<62018> 50% [2h 0m]"

\* rate() of BatteryModule.
BatteryRate == 5

\* C15: whenever charge_full, charge_now or current_now of any one device
\* cannot be read or parsed, the battery producer returns a failure without
\* a message; on that result the aggregator's closure contributes nothing
\* for the battery and clears its slot, and shows no error block.
C15_SilentFailure ==
  (pc \in {"done", "panicked"} /\ ~AllReadable)
  => /\ pc = "done"
     /\ ret = Err(None)
     /\ \A slot \in {None, Some("x")} :
          Closure(0, BatteryRate, slot, ret) =
            [item |-> None, slot |-> None, called |-> TRUE, panic |-> FALSE]

\* Two devices, the first readable throughout, the second without a
\* readable current_now.
C15_Witness ==
  /\ pc = "done"
  /\ Len(arg.devs) = 2
  /\ \A file \in {"charge_full", "charge_now", "current_now"} :
       IsSome(arg.devs[1][file])
  /\ IsSome(arg.devs[2].charge_full)
  /\ IsSome(arg.devs[2].charge_now)
  /\ arg.devs[2].current_now = None
  /\ ret = Err(None)

\* C16: when the summed current_now is 0 while the status is Charging or
\* Discharging, the battery text carries no time-remaining part: it is
\* '<glyph> <pct>%' only.
C16_ZeroCurrent ==
  (/\ pc = "done"
   /\ AllReadable
   /\ Total("charge_full") > 0
   /\ Total("current_now") = 0
   /\ Status \in {"Charging", "Discharging"})
  => /\ ret.tag = "Ok"
     /\ ret.out.content = Prefix

\* C20: the battery producer returns a fragment or a failure value, and
\* never aborts, for every combination of readable unsigned values.
C20_NeverAborts ==
  (pc \in {"done", "panicked"} /\ AllReadable)
  => /\ pc = "done"
     /\ ret.tag \in {"Ok", "Err"}

====
